---- MODULE Spec2Model ----
(***************************************************************************)
(* Stale-while-revalidate hooks over a process-wide cache                  *)
(* (hooks/use-query-swr.ts: useQuerySwr, useQueriesSwr,                    *)
(* usePaginatedQuerySwr, createQueryKey).                                  *)
(*                                                                         *)
(* A component instance that calls one of the hooks is a record of its     *)
(* hook state.  One evaluation (render) of a hook is one action; the       *)
(* effect the evaluation schedules (React.useEffect) is a second action    *)
(* that runs after it.  What the underlying convex/react hook returns is   *)
(* an input of the evaluation.                                             *)
(*                                                                         *)
(* Spec is the module as built (FEATURE_FLAG_USE_QUERY_SWR = true),        *)
(* FairSpec adds that scheduled effects run, BuildSpec builds it with the  *)
(* switch either way, OrderSpec keeps a record of what the evaluations     *)
(* saw, and KeySpec is createQueryKey on its own.                          *)
(***************************************************************************)
EXTENDS Integers, Sequences, FiniteSets, TLC

\* Bound: the argument objects in use are {page: 1} .. {page: NumPages}.
NumPages == 2

\* Bound: a paginated query has loaded at most MaxItems items.
MaxItems == 1

VARIABLES
    cache,      \* store.get(cacheAtom): Record<string, unknown>
    route,      \* the route that is open: which components it shows
    single,     \* the component instances that call useQuerySwr
    multi,      \* the component instances that call useQueriesSwr
    paginated,  \* the component instances that call usePaginatedQuerySwr
    delegated,  \* the last call of the underlying loadMore, as the provider saw it
    invalidated, \* keys whose entry loadMore deleted and no effect has written since
    FEATURE_FLAG_USE_QUERY_SWR, \* the switch the module was built with
    observed,   \* per key, the last non-loading result an evaluation saw
    keyIn,      \* two (query, args) pairs handed to createQueryKey
    keyOut      \* the strings createQueryKey returned, call by call

vars == <<cache, route, single, multi, paginated, delegated, invalidated,
          FEATURE_FLAG_USE_QUERY_SWR, observed, keyIn, keyOut>>

----------------------------------------------------------------------------
(* JavaScript values.  Every value is a record, so that values of          *)
(* different shapes can be compared.                                       *)

Prim(s) == [prim |-> s]

\* The value useQuery returns while loading.
undefined == Prim("undefined")

null == Prim("null")

\* What a failed query produces: useQuery and usePaginatedQuery throw it,
\* useQueries returns it as the sub-result of the failed query.
QueryError == [error |-> "query failed"]

\* The outcome of an evaluation in which the underlying hook threw.
Thrown(e) == [thrown |-> e]

\* Non-loading results of a query: primitives, equal iff identical (Object.is).
Results == {null, Prim("v1"), Prim("v2")}

\* JavaScript's a ?? b
Coalesce(a, b) == IF a = undefined \/ a = null THEN b ELSE a

Pages == 1..NumPages

----------------------------------------------------------------------------
(* createQueryKey *)

RECURSIVE JoinComma(_)
JoinComma(ss) ==
    IF Len(ss) = 0 THEN ""
    ELSE IF Len(ss) = 1 THEN ss[1]
    ELSE ss[1] \o "," \o JoinComma(Tail(ss))

JsonString(s) == "\"" \o s \o "\""

\* JSON.stringify of an array whose elements are already JSON text.
JsonArray(elems) == "[" \o JoinComma(elems) \o "]"

\* JSON.stringify of an object given as <<property, JSON text>> entries.
JsonObject(entries) ==
    "{" \o JoinComma([n \in 1..Len(entries) |->
                        JsonString(entries[n][1]) \o ":" \o entries[n][2]])
        \o "}"

\* JavaScript objects are [obj |-> <<property, number>> entries in insertion
\* order] and arrays of objects are [arr |-> elements].
Obj(entries) == [obj |-> entries]

Arr(elems) == [arr |-> elems]

\* The arguments object {page: p}.
PageArgs(p) == Obj(<<<<"page", p>>>>)

\* JSON.stringify of an object of numbers: the properties in insertion order.
ObjectToJson(o) ==
    JsonObject([n \in 1..Len(o.obj) |-> <<o.obj[n][1], ToString(o.obj[n][2])>>])

\* JSON.stringify of an object or of an array of objects.
ValueToJson(v) ==
    IF "arr" \in DOMAIN v
    THEN JsonArray([n \in 1..Len(v.arr) |-> ObjectToJson(v.arr[n])])
    ELSE ObjectToJson(v)

\* The property names in use, in the order of JavaScript's < on strings.
PropertyOrder == <<"initialNumItems", "page", "tab">>

Rank(name) == CHOOSE n \in 1..Len(PropertyOrder) : PropertyOrder[n] = name

\* entries.sort(([k1], [k2]) => (k1 === k2 ? 0 : k1 < k2 ? -1 : 1)); the
\* properties of an object are distinct.
SortEntries(entries) ==
    [n \in 1..Len(entries) |->
        CHOOSE e \in {entries[m] : m \in 1..Len(entries)} :
            Cardinality({m \in 1..Len(entries) :
                            Rank(entries[m][1]) < Rank(e[1])}) = n - 1]

\* convexToJson of an arguments object or of an array of them: the JSON
\* value, an object whose properties were inserted in sorted order.
convexToJson(v) ==
    IF "arr" \in DOMAIN v
    THEN Arr([n \in 1..Len(v.arr) |-> Obj(SortEntries(v.arr[n].obj))])
    ELSE Obj(SortEntries(v.obj))

RECURSIVE JoinSlash(_)
JoinSlash(ss) ==
    IF Len(ss) = 0 THEN ""
    ELSE IF Len(ss) = 1 THEN ss[1]
    ELSE ss[1] \o "/" \o JoinSlash(Tail(ss))

\* A function reference api.a.b.f is its path <<"a", "b", "f">>;
\* getFunctionName gives "a/b:f".
getFunctionName(query) ==
    JoinSlash(SubSeq(query, 1, Len(query) - 1)) \o ":" \o query[Len(query)]

\* A key made of the arguments alone.
createQueryKeyArgsOnly(query, args) ==
    JsonArray(<<ValueToJson(convexToJson(args))>>)

\* A key made of the arguments as they are, without convexToJson.
createQueryKeyPlainArgs(query, args) ==
    JsonArray(<<JsonString(getFunctionName(query)), ValueToJson(args)>>)

\* JSON.stringify([getFunctionName(query), convexToJson(args)])
createQueryKey(query, args) ==
    JsonArray(<<JsonString(getFunctionName(query)), ValueToJson(convexToJson(args))>>)

----------------------------------------------------------------------------
(* The cache *)

\* store.get(cacheAtom)[key]
CacheGet(c, key) == IF key \in DOMAIN c THEN c[key] ELSE undefined

\* A write that does not spread the entries already stored.
CacheSetOnly(c, key, value) == [k \in {key} |-> value]

\* { ...store.get(cacheAtom), [key]: result }
CacheSet(c, key, value) ==
    [k \in DOMAIN c \cup {key} |-> IF k = key THEN value ELSE c[k]]

\* A delete that stores an empty object.
CacheClear(c, key) == << >>

\* const cache = { ...store.get(cacheAtom) }; delete cache[key]
CacheDelete(c, key) == [k \in DOMAIN c \ {key} |-> c[k]]

----------------------------------------------------------------------------
(* The components *)

SingleInst == {"s1", "s2"}

MultiInst == {"m1"}

PaginatedInst == {"p1"}

\* A route shows components of one hook, mounted side by side and with
\* arguments that change; the route "tabs" shows one component of each hook
\* in a tab of its own, with fixed arguments, and only the tab that is open
\* is mounted.
Routes == {"single", "multi", "paginated", "tabs"}

TabInst == {"s1", "m1", "p1"}

NoneMounted ==
    /\ \A j \in SingleInst : ~single[j].mounted
    /\ \A j \in MultiInst : ~multi[j].mounted
    /\ \A j \in PaginatedInst : ~paginated[j].mounted

\* Instance i, a component of the route r, may mount.
MayMount(i, r) ==
    \/ route = r
    \/ route = "tabs" /\ i \in TabInst /\ NoneMounted

\* The arguments {page: a} are arguments the open route passes.
MayPass(a) == route = "tabs" => a = 1

----------------------------------------------------------------------------
(* useQuerySwr *)

\* api.items.list
ListItems == <<"items", "list">>

\* The keys of the arguments in use, computed once.
QueryKeys == [p \in Pages |-> createQueryKey(ListItems, Arr(<<PageArgs(p)>>))]

\* key = createQueryKey(name, args), args the rest array [{page: p}]
QueryKey(p) == QueryKeys[p]

QueryUnmounted ==
    [mounted |-> FALSE, args |-> 0, result |-> undefined,
     pend |-> FALSE, out |-> undefined]

\* A return that prefers the stored value to the live one.
QueryReturnStaleFirst(result, stale) == Coalesce(stale, result)

\* return result === undefined ? (stale ?? result) : result
QueryReturn(result, stale) ==
    IF result = undefined THEN Coalesce(stale, result) ELSE result

\* One evaluation of the hook by an instance whose hook state is prev, with
\* arguments {page: a}, in which useQuery returns r (or throws).
useQuerySwr(c, prev, a, r) ==
    IF r = QueryError
    THEN [QueryUnmounted EXCEPT !.result = r, !.out = Thrown(r)]
    ELSE [mounted |-> TRUE,
          args    |-> a,
          result  |-> r,
          \* React.useEffect(..., [result]): scheduled on mount and when
          \* result is not the value of the previous evaluation
          pend    |-> (~prev.mounted \/ prev.result # r),
          out     |-> QueryReturn(r, CacheGet(c, QueryKey(a)))]

\* convex/react's useQuery as a component sees it: it returns r (or throws)
\* and schedules nothing.
useQuery(a, r) ==
    IF r = QueryError
    THEN [QueryUnmounted EXCEPT !.result = r, !.out = Thrown(r)]
    ELSE [mounted |-> TRUE, args |-> a, result |-> r, pend |-> FALSE, out |-> r]

\* An export that is the wrapping function whatever the switch says.
ExportUseQuerySwrAlways(c, prev, a, r) == useQuerySwr(c, prev, a, r)

\* export const useQuerySwr = !FEATURE_FLAG_USE_QUERY_SWR ? useQuery : (...)
ExportUseQuerySwr(c, prev, a, r) ==
    IF ~FEATURE_FLAG_USE_QUERY_SWR THEN useQuery(a, r)
    ELSE useQuerySwr(c, prev, a, r)

QueryLive == {undefined, QueryError} \cup Results

\* The record of what evaluations saw, when one is kept: under key, the last
\* result of useQuery that was not the sentinel (and was not thrown).
Observe(o, key, r) ==
    IF ~o.on \/ r \in {undefined, QueryError} THEN o
    ELSE [o EXCEPT !.last = [k \in DOMAIN o.last \cup {key} |->
                                IF k = key THEN r ELSE o.last[k]]]

\* A first evaluation that writes the cache itself, during the render.
MountQueryWritesCache(i, a, r) ==
    /\ MayMount(i, "single")
    /\ MayPass(a)
    /\ ~single[i].mounted
    /\ single' = [single EXCEPT ![i] = ExportUseQuerySwr(cache, QueryUnmounted, a, r)]
    /\ cache' = IF r \in Results THEN CacheSet(cache, QueryKey(a), r) ELSE cache
    /\ observed' = Observe(observed, QueryKey(a), r)
    /\ UNCHANGED <<route, multi, paginated, delegated, invalidated>>
    /\ UNCHANGED <<FEATURE_FLAG_USE_QUERY_SWR, keyIn, keyOut>>

MountQuery(i, a, r) ==
    /\ MayMount(i, "single")
    /\ MayPass(a)
    /\ ~single[i].mounted
    /\ single' = [single EXCEPT ![i] = ExportUseQuerySwr(cache, QueryUnmounted, a, r)]
    /\ observed' = Observe(observed, QueryKey(a), r)
    /\ UNCHANGED <<cache, route, multi, paginated, delegated, invalidated>>
    /\ UNCHANGED <<FEATURE_FLAG_USE_QUERY_SWR, keyIn, keyOut>>

\* Re-evaluation: the subscription delivered, the arguments changed or the
\* parent rendered again.  Effects of the previous evaluation have run.
RenderQuery(i, a, r) ==
    /\ single[i].mounted
    /\ ~single[i].pend
    /\ MayPass(a)
    /\ single' = [single EXCEPT ![i] = ExportUseQuerySwr(cache, single[i], a, r)]
    /\ observed' = Observe(observed, QueryKey(a), r)
    /\ UNCHANGED <<cache, route, multi, paginated, delegated, invalidated>>
    /\ UNCHANGED <<FEATURE_FLAG_USE_QUERY_SWR, keyIn, keyOut>>

\* The effect of the instance's last evaluation.
EffectQuery(i) ==
    /\ single[i].mounted
    /\ single[i].pend
    /\ cache' = IF single[i].result # undefined
                THEN CacheSet(cache, QueryKey(single[i].args), single[i].result)
                ELSE cache
    /\ single' = [single EXCEPT ![i].pend = FALSE]
    /\ UNCHANGED <<route, multi, paginated, delegated, invalidated>>
    /\ UNCHANGED <<FEATURE_FLAG_USE_QUERY_SWR, observed, keyIn, keyOut>>

UnmountQuery(i) ==
    /\ single[i].mounted
    /\ ~single[i].pend
    /\ single' = [single EXCEPT ![i] = QueryUnmounted]
    /\ UNCHANGED <<cache, route, multi, paginated, delegated, invalidated>>
    /\ UNCHANGED <<FEATURE_FLAG_USE_QUERY_SWR, observed, keyIn, keyOut>>

NextSingle ==
    \E i \in SingleInst :
        \/ \E a \in Pages, r \in QueryLive : MountQuery(i, a, r)
        \/ \E a \in Pages, r \in QueryLive : RenderQuery(i, a, r)
        \/ EffectQuery(i)
        \/ UnmountQuery(i)

----------------------------------------------------------------------------
(* useQueriesSwr *)

\* api.items.count
CountItems == <<"items", "count">>

\* A request is the declaration of its named sub-queries, in declaration
\* order (the order Object.entries gives): <<name, query, args>>.
Request(p) ==
    << <<"items", ListItems, PageArgs(p)>>, <<"count", CountItems, Obj(<< >>)>> >>

Reversed(q) == [n \in 1..Len(q) |-> q[Len(q) + 1 - n]]

\* The requests the components make: one per page of items, and the first
\* declared in the other order.
Requests == {Request(p) : p \in Pages} \cup {Reversed(Request(1))}

Names == {"items", "count"}

\* Composite keys that list the sub-keys in the order of the names.
QueriesKeysByName ==
    [queries \in Requests |->
        JsonObject([n \in 1..2 |->
            LET name == <<"count", "items">>[n]
                m == CHOOSE m \in 1..Len(queries) : queries[m][1] = name
            IN <<name, JsonString(createQueryKey(queries[m][2], queries[m][3]))>>])]

\* The composite key of each request, computed once: the sub-keys by name,
\* in declaration order (the quotes of the sub-keys are not escaped here).
QueriesKeys ==
    [queries \in Requests |->
        JsonObject([n \in 1..Len(queries) |->
            <<queries[n][1],
              JsonString(createQueryKey(queries[n][2], queries[n][3]))>>])]

\* const key = React.useMemo(() => { ...; return JSON.stringify(newMap) }, [queries])
QueriesKey(queries) == QueriesKeys[queries]

\* Object.values(result ?? { a: undefined }).some((v) => v === undefined)
QueriesIsLoading(result) == \E n \in DOMAIN result : result[n] = undefined

\* A return without the substitution.
QueriesReturnNoStale(isLoading, result, stale) == result

\* return isLoading ? (stale ?? result) : result
QueriesReturn(isLoading, result, stale) ==
    IF isLoading THEN Coalesce(stale, result) ELSE result

QueriesUnmounted ==
    [mounted |-> FALSE, queries |-> << >>, result |-> << >>,
     isLoading |-> FALSE, pend |-> FALSE, out |-> << >>]

\* One evaluation of the hook with the request q, in which useQueries
\* returns the mapping r; same: r is the very object of the previous
\* evaluation.
useQueriesSwr(c, prev, q, r, same) ==
    [mounted |-> TRUE,
     queries |-> q,
     result  |-> r,
     isLoading |-> QueriesIsLoading(r),
     \* React.useEffect(..., [result])
     pend    |-> (~prev.mounted \/ ~same),
     out     |-> QueriesReturn(QueriesIsLoading(r), r, CacheGet(c, QueriesKey(q)))]

\* convex/react's useQueries: it returns the mapping r and schedules nothing.
useQueries(q, r) ==
    [mounted |-> TRUE, queries |-> q, result |-> r, isLoading |-> FALSE,
     pend |-> FALSE, out |-> r]

\* export const useQueriesSwr = !FEATURE_FLAG_USE_QUERY_SWR ? useQueries : (...)
ExportUseQueriesSwr(c, prev, q, r, same) ==
    IF ~FEATURE_FLAG_USE_QUERY_SWR THEN useQueries(q, r)
    ELSE useQueriesSwr(c, prev, q, r, same)

SubLive == {undefined, QueryError, Prim("v1")}

QueriesLive == [Names -> SubLive]

MountQueries(i, q, r) ==
    /\ MayMount(i, "multi")
    /\ route = "tabs" => q = Request(1)
    /\ ~multi[i].mounted
    /\ multi' = [multi EXCEPT
                   ![i] = ExportUseQueriesSwr(cache, QueriesUnmounted, q, r, FALSE)]
    /\ UNCHANGED <<cache, route, single, paginated, delegated, invalidated>>
    /\ UNCHANGED <<FEATURE_FLAG_USE_QUERY_SWR, observed, keyIn, keyOut>>

RenderQueries(i, q, r, same) ==
    /\ multi[i].mounted
    /\ ~multi[i].pend
    /\ route = "tabs" => q = Request(1)
    /\ same => (r = multi[i].result)
    /\ multi' = [multi EXCEPT ![i] = ExportUseQueriesSwr(cache, multi[i], q, r, same)]
    /\ UNCHANGED <<cache, route, single, paginated, delegated, invalidated>>
    /\ UNCHANGED <<FEATURE_FLAG_USE_QUERY_SWR, observed, keyIn, keyOut>>

EffectQueries(i) ==
    /\ multi[i].mounted
    /\ multi[i].pend
    /\ cache' = IF ~multi[i].isLoading
                THEN CacheSet(cache, QueriesKey(multi[i].queries), multi[i].result)
                ELSE cache
    /\ multi' = [multi EXCEPT ![i].pend = FALSE]
    /\ UNCHANGED <<route, single, paginated, delegated, invalidated>>
    /\ UNCHANGED <<FEATURE_FLAG_USE_QUERY_SWR, observed, keyIn, keyOut>>

UnmountQueries(i) ==
    /\ multi[i].mounted
    /\ ~multi[i].pend
    /\ multi' = [multi EXCEPT ![i] = QueriesUnmounted]
    /\ UNCHANGED <<cache, route, single, paginated, delegated, invalidated>>
    /\ UNCHANGED <<FEATURE_FLAG_USE_QUERY_SWR, observed, keyIn, keyOut>>

NextQueries ==
    \E i \in MultiInst :
        \/ \E q \in Requests, r \in QueriesLive : MountQueries(i, q, r)
        \/ \E q \in Requests, r \in QueriesLive, same \in BOOLEAN :
               RenderQueries(i, q, r, same)
        \/ EffectQueries(i)
        \/ UnmountQueries(i)

----------------------------------------------------------------------------
(* usePaginatedQuerySwr *)

\* api.items.listPaginated
ListPaginated == <<"items", "listPaginated">>

\* The options object of the components: { initialNumItems: 25 }
PaginationOptions == Obj(<<<<"initialNumItems", 25>>>>)

\* The keys of the arguments in use, computed once.
PaginatedKeys ==
    [p \in Pages |->
        createQueryKey(ListPaginated, Arr(<<PageArgs(p), PaginationOptions>>))]

\* key = createQueryKey(name, args), args the rest array [{page: p}, options]
PaginatedKey(p) == PaginatedKeys[p]

Statuses == {"LoadingFirstPage", "LoadingMore", "CanLoadMore", "Exhausted"}

\* What usePaginatedQuery returns: the items loaded so far, the status and
\* its own loadMore.  No items are loaded while the first page loads.
PaginatedResult(n, st) ==
    [results |-> [x \in 1..n |-> x], status |-> st,
     loadMore |-> [originalLoadMore |-> TRUE]]

PaginatedLive ==
    {PaginatedResult(0, "LoadingFirstPage")}
        \cup {PaginatedResult(n, st) : n \in 0..MaxItems,
                                       st \in Statuses \ {"LoadingFirstPage"}}
        \cup {QueryError}

PaginatedUnmounted ==
    [mounted |-> FALSE, args |-> 0, result |-> undefined,
     pend |-> FALSE, out |-> undefined]

\* A substitution while any page is loading.
PaginatedFinalAnyLoading(result, stale) ==
    IF result.status \in {"LoadingFirstPage", "LoadingMore"}
    THEN Coalesce(stale, result) ELSE result

\* const finalResult = result.status === 'LoadingFirstPage' ? (stale ?? result) : result
PaginatedFinal(result, stale) ==
    IF result.status = "LoadingFirstPage" THEN Coalesce(stale, result) ELSE result

\* The function React.useCallback returns: it closes over key.
WrappedLoadMore(key) == [swrLoadMore |-> key]

\* An effect that writes whatever the status is.
PaginatedShouldWriteAlways(result) == TRUE

\* result.status !== 'LoadingMore' && result.status !== 'LoadingFirstPage'
PaginatedShouldWrite(result) ==
    result.status # "LoadingMore" /\ result.status # "LoadingFirstPage"

\* One evaluation of the hook with arguments {page: a}, in which
\* usePaginatedQuery returns r (or throws).
usePaginatedQuerySwr(c, prev, a, r) ==
    IF r = QueryError
    THEN [PaginatedUnmounted EXCEPT !.result = r, !.out = Thrown(r)]
    ELSE [mounted |-> TRUE,
          args    |-> a,
          result  |-> r,
          \* React.useEffect(..., [result.status])
          pend    |-> (~prev.mounted \/ prev.result.status # r.status),
          \* return { ...finalResult, loadMore }
          out     |-> [PaginatedFinal(r, CacheGet(c, PaginatedKey(a)))
                           EXCEPT !.loadMore = WrappedLoadMore(PaginatedKey(a))]]

\* convex/react's usePaginatedQuery: it returns r, its own loadMore included
\* (or throws), and schedules nothing.
usePaginatedQuery(a, r) ==
    IF r = QueryError
    THEN [PaginatedUnmounted EXCEPT !.result = r, !.out = Thrown(r)]
    ELSE [mounted |-> TRUE, args |-> a, result |-> r, pend |-> FALSE, out |-> r]

\* export const usePaginatedQuerySwr =
\*     !FEATURE_FLAG_USE_QUERY_SWR ? usePaginatedQuery : (...)
ExportUsePaginatedQuerySwr(c, prev, a, r) ==
    IF ~FEATURE_FLAG_USE_QUERY_SWR THEN usePaginatedQuery(a, r)
    ELSE usePaginatedQuerySwr(c, prev, a, r)

MountPaginated(i, a, r) ==
    /\ MayMount(i, "paginated")
    /\ MayPass(a)
    /\ ~paginated[i].mounted
    /\ paginated' = [paginated EXCEPT
                        ![i] = ExportUsePaginatedQuerySwr(cache, PaginatedUnmounted, a, r)]
    /\ UNCHANGED <<cache, route, single, multi, delegated, invalidated>>
    /\ UNCHANGED <<FEATURE_FLAG_USE_QUERY_SWR, observed, keyIn, keyOut>>

RenderPaginated(i, a, r) ==
    /\ paginated[i].mounted
    /\ ~paginated[i].pend
    /\ MayPass(a)
    /\ paginated' = [paginated EXCEPT
                        ![i] = ExportUsePaginatedQuerySwr(cache, paginated[i], a, r)]
    /\ UNCHANGED <<cache, route, single, multi, delegated, invalidated>>
    /\ UNCHANGED <<FEATURE_FLAG_USE_QUERY_SWR, observed, keyIn, keyOut>>

EffectPaginated(i) ==
    /\ paginated[i].mounted
    /\ paginated[i].pend
    /\ LET key == PaginatedKey(paginated[i].args)
           write == PaginatedShouldWrite(paginated[i].result)
       IN /\ cache' = IF write THEN CacheSet(cache, key, paginated[i].result)
                      ELSE cache
          /\ invalidated' = IF write THEN invalidated \ {key} ELSE invalidated
    /\ paginated' = [paginated EXCEPT ![i].pend = FALSE]
    /\ UNCHANGED <<route, single, multi, delegated>>
    /\ UNCHANGED <<FEATURE_FLAG_USE_QUERY_SWR, observed, keyIn, keyOut>>

\* A loadMore that only delegates.
LoadMoreNoDelete(c, key) == c

\* The cache the wrapping loadMore has stored when it calls originalLoadMore.
LoadMoreCache(c, key) == CacheDelete(c, key)

\* The consumer calls the loadMore the last evaluation returned.
LoadMore(i) ==
    /\ paginated[i].mounted
    /\ ~paginated[i].pend
    /\ LET loadMore == paginated[i].out.loadMore
       IN IF "swrLoadMore" \in DOMAIN loadMore
          THEN LET key == loadMore.swrLoadMore
               IN /\ cache' = LoadMoreCache(cache, key)
                  /\ invalidated' = IF key \in DOMAIN cache
                                    THEN invalidated \cup {key} ELSE invalidated
                  \* originalLoadMore(numItems), called after store.set
                  /\ delegated' = [key |-> key, cached |-> (key \in DOMAIN cache')]
          \* the pass-through returned the underlying loadMore itself
          ELSE LET key == PaginatedKey(paginated[i].args)
               IN /\ UNCHANGED <<cache, invalidated>>
                  /\ delegated' = [key |-> key, cached |-> (key \in DOMAIN cache)]
    /\ UNCHANGED <<route, single, multi, paginated>>
    /\ UNCHANGED <<FEATURE_FLAG_USE_QUERY_SWR, observed, keyIn, keyOut>>

UnmountPaginated(i) ==
    /\ paginated[i].mounted
    /\ ~paginated[i].pend
    /\ paginated' = [paginated EXCEPT ![i] = PaginatedUnmounted]
    /\ UNCHANGED <<cache, route, single, multi, delegated, invalidated>>
    /\ UNCHANGED <<FEATURE_FLAG_USE_QUERY_SWR, observed, keyIn, keyOut>>

NextPaginated ==
    \E i \in PaginatedInst :
        \/ \E a \in Pages, r \in PaginatedLive : MountPaginated(i, a, r)
        \/ \E a \in Pages, r \in PaginatedLive : RenderPaginated(i, a, r)
        \/ EffectPaginated(i)
        \/ LoadMore(i)
        \/ UnmountPaginated(i)

----------------------------------------------------------------------------

NoCall == [key |-> "", cached |-> FALSE]

\* The state after the module has loaded: const cacheAtom = atom({}), and no
\* component mounted.  The cache is in memory and a full page load resets it,
\* so a session stays on the route it opened.
NoneMountedYet ==
    /\ cache = << >>
    /\ single = [i \in SingleInst |-> QueryUnmounted]
    /\ multi = [i \in MultiInst |-> QueriesUnmounted]
    /\ paginated = [i \in PaginatedInst |-> PaginatedUnmounted]
    /\ delegated = NoCall
    /\ invalidated = {}

\* No record of what the evaluations saw is kept.
NotObserving == [on |-> FALSE, last |-> << >>]

NoKeyIn == << >>

Init ==
    /\ NoneMountedYet
    /\ route \in Routes
    \* const FEATURE_FLAG_USE_QUERY_SWR = true
    /\ FEATURE_FLAG_USE_QUERY_SWR = TRUE
    /\ observed = NotObserving
    /\ keyIn = NoKeyIn
    /\ keyOut = << >>

Next == NextSingle \/ NextQueries \/ NextPaginated

Spec == Init /\ [][Next]_vars

\* Effects that an evaluation scheduled do run (React flushes them); nothing
\* else is scheduled by the hooks, and the provider and the consumer act
\* when they choose to.
\* The module built with the switch either way ("Toggle SWR behavior on/off
\* globally"): the switch is a constant of the build.
BuildInit ==
    /\ NoneMountedYet
    /\ route \in Routes
    /\ FEATURE_FLAG_USE_QUERY_SWR \in BOOLEAN
    /\ observed = NotObserving
    /\ keyIn = NoKeyIn
    /\ keyOut = << >>

BuildSpec == BuildInit /\ [][Next]_vars

\* The same program, with the record of what the evaluations of useQuerySwr
\* saw.
OrderInit ==
    /\ NoneMountedYet
    /\ route \in Routes
    /\ FEATURE_FLAG_USE_QUERY_SWR = TRUE
    /\ observed = [on |-> TRUE, last |-> << >>]
    /\ keyIn = NoKeyIn
    /\ keyOut = << >>

OrderSpec == OrderInit /\ [][Next]_vars

(* createQueryKey on its own: two (query, args) pairs, and the calls       *)
(* createQueryKey(first), createQueryKey(second), createQueryKey(first).   *)

KeyQueries == {ListItems, CountItems}

KeyProperties == {"page", "tab"}

\* The objects with properties among KeyProperties and values among Pages,
\* in every insertion order.
KeyObjects ==
    {Obj(<< >>)}
        \cup {Obj(<<<<p, v>>>>) : p \in KeyProperties, v \in Pages}
        \cup {Obj(<<<<p[1], v>>, <<p[2], w>>>>) :
                 p \in {<<"page", "tab">>, <<"tab", "page">>}, v \in Pages, w \in Pages}

\* args as useQueriesSwr passes it (the object) and as useQuerySwr passes
\* it (the rest array).
KeyArgs == KeyObjects \cup {Arr(<<o>>) : o \in KeyObjects}

KeyInputs == [query : KeyQueries, args : KeyArgs]

KeyInit ==
    /\ NoneMountedYet
    /\ route = "single"
    /\ FEATURE_FLAG_USE_QUERY_SWR = TRUE
    /\ observed = NotObserving
    /\ keyIn \in KeyInputs \X KeyInputs
    /\ keyOut = << >>

CallCreateQueryKey ==
    /\ Len(keyOut) < 3
    /\ LET in == keyIn[IF Len(keyOut) = 1 THEN 2 ELSE 1]
       IN keyOut' = Append(keyOut, createQueryKey(in.query, in.args))
    /\ UNCHANGED <<cache, route, single, multi, paginated, delegated, invalidated>>
    /\ UNCHANGED <<FEATURE_FLAG_USE_QUERY_SWR, observed, keyIn>>

KeyNext == CallCreateQueryKey

KeySpec == KeyInit /\ [][KeyNext]_vars

FairSpec ==
    /\ Spec
    /\ \A i \in SingleInst : WF_vars(EffectQuery(i))
    /\ \A i \in MultiInst : WF_vars(EffectQueries(i))
    /\ \A i \in PaginatedInst : WF_vars(EffectPaginated(i))

----------------------------------------------------------------------------
(* Properties *)

\* The step is an evaluation of useQuerySwr by instance i with arguments
\* {page: a} in which useQuery returns r.  (An evaluation leaves its
\* arguments and the live result in the instance, where the formulas below
\* read them.)
EvalQuery(i, a, r) == MountQuery(i, a, r) \/ RenderQuery(i, a, r)

EvalQueries(i, q, r) ==
    MountQueries(i, q, r) \/ \E same \in BOOLEAN : RenderQueries(i, q, r, same)

EvalPaginated(i, a, r) == MountPaginated(i, a, r) \/ RenderPaginated(i, a, r)

\* C1: when the arguments of a mounted useQuerySwr instance whose query had
\* resolved to R1 change, the evaluation at the change returns R1, and every
\* later evaluation that still finds the new query loading returns what the
\* one before it returned.
C1_ArgChangeKeepsPrevious ==
    [][\A i \in SingleInst :
         (single'[i].mounted /\ RenderQuery(i, single'[i].args, undefined)) =>
            /\ (single[i].result # undefined /\ single'[i].args # single[i].args)
                  => single'[i].out = single[i].result
            /\ (single[i].result = undefined /\ single'[i].args = single[i].args
                    /\ single[i].out # undefined)
                  => single'[i].out = single[i].out]_vars

\* C2: an evaluation of useQuerySwr that finds the query loading and an
\* entry R (null included) under its key returns exactly R.
C2_StaleSubstitution ==
    [][\A i \in SingleInst :
         (/\ single'[i].mounted
          /\ EvalQuery(i, single'[i].args, undefined)
          /\ QueryKey(single'[i].args) \in DOMAIN cache)
            => single'[i].out = cache[QueryKey(single'[i].args)]]_vars

\* C3: an instance whose live result is not the sentinel (for useQueriesSwr:
\* whose live batch has no sentinel sub-result) has returned that live
\* result, whatever the cache holds.
C3_FreshnessPrecedence ==
    /\ \A i \in SingleInst :
          (single[i].mounted /\ single[i].result # undefined)
             => single[i].out = single[i].result
    /\ \A i \in MultiInst :
          (multi[i].mounted /\ \A n \in Names : multi[i].result[n] # undefined)
             => multi[i].out = multi[i].result

\* C3 witness: a live result was returned although the cache holds another
\* value under the key.
C3_Witness ==
    \E i \in SingleInst :
        /\ single[i].mounted
        /\ single[i].result \in Results
        /\ QueryKey(single[i].args) \in DOMAIN cache
        /\ cache[QueryKey(single[i].args)] \notin {single[i].result, null}
        /\ single[i].out = single[i].result

\* C4: when an evaluation of useQuerySwr with a non-sentinel live result F
\* and its effect phase are over, the cache holds F under the evaluation's key.
C4_WriteOnSuccess ==
    [][\A i \in SingleInst :
         (/\ single'[i] # single[i]
          /\ single'[i].mounted
          /\ ~single'[i].pend
          /\ single'[i].result # undefined)
            => CacheGet(cache', QueryKey(single'[i].args)) = single'[i].result]_vars

\* C5: when an evaluation of usePaginatedQuerySwr whose live status is
\* neither LoadingFirstPage nor LoadingMore and its effect phase are over,
\* the cache holds the live result under the evaluation's key.
C5_PaginatedWrite ==
    [][\A i \in PaginatedInst :
         (/\ paginated'[i] # paginated[i]
          /\ paginated'[i].mounted
          /\ ~paginated'[i].pend
          /\ paginated'[i].result.status \in {"CanLoadMore", "Exhausted"})
            => CacheGet(cache', PaginatedKey(paginated'[i].args))
                   = paginated'[i].result]_vars

\* C6: the returned loadMore removes the entry under its key before it calls
\* the underlying loadMore, and an evaluation with status LoadingFirstPage for
\* a key whose entry loadMore removed, with no write to it since, returns the
\* live result.
C6_PaginationInvalidation ==
    [][/\ \A i \in PaginatedInst :
             LoadMore(i) =>
                /\ paginated[i].out.loadMore.swrLoadMore \notin DOMAIN cache'
                /\ delegated'.key = paginated[i].out.loadMore.swrLoadMore
                /\ ~delegated'.cached
       /\ \A i \in PaginatedInst :
             (/\ paginated'[i].mounted
              /\ EvalPaginated(i, paginated'[i].args, paginated'[i].result)
              /\ paginated'[i].result.status = "LoadingFirstPage"
              /\ PaginatedKey(paginated'[i].args) \in invalidated)
                => /\ paginated'[i].out.results = paginated'[i].result.results
                   /\ paginated'[i].out.status = "LoadingFirstPage"]_vars

\* C6 witness: loadMore removed the entry of the key and the instance was
\* then evaluated for that key while the first page loads.
C6_Witness ==
    \E i \in PaginatedInst :
        /\ paginated[i].mounted
        /\ paginated[i].result.status = "LoadingFirstPage"
        /\ PaginatedKey(paginated[i].args) \in invalidated
        /\ delegated.key = PaginatedKey(paginated[i].args)
        /\ paginated[i].out.status = "LoadingFirstPage"

\* C7: a failure of the underlying query reaches the consumer: useQuerySwr
\* and usePaginatedQuerySwr throw it, useQueriesSwr returns it as the
\* sub-result of the failed query; and what a wrapper returns differs from
\* the live result only while that is loading.
C7_ErrorsNotMasked ==
    /\ \A i \in SingleInst :
          /\ single[i].result = QueryError => single[i].out = Thrown(QueryError)
          /\ (single[i].mounted /\ single[i].out # single[i].result)
                => single[i].result = undefined
    /\ \A i \in PaginatedInst :
          /\ paginated[i].result = QueryError
                => paginated[i].out = Thrown(QueryError)
          /\ (paginated[i].mounted
                /\ paginated[i].out.status # paginated[i].result.status)
                => paginated[i].result.status = "LoadingFirstPage"
    /\ \A i \in MultiInst :
          multi[i].mounted =>
             /\ \A n \in Names :
                   multi[i].result[n] = QueryError => multi[i].out[n] = QueryError
             /\ multi[i].out # multi[i].result
                   => \E n \in Names : multi[i].result[n] = undefined

\* C8: an entry of the cache stays (with some value) through every step that
\* is not a call of the paginated loadMore for exactly its key.
C8_EntryPersistence ==
    [][\A k \in DOMAIN cache :
         \/ k \in DOMAIN cache'
         \/ \E i \in PaginatedInst :
               LoadMore(i) /\ paginated[i].out.loadMore.swrLoadMore = k]_vars

\* C8 witness: loadMore has deleted the entry of its key, every component is
\* unmounted, and the entries the other two hooks wrote are there.
C8_Witness ==
    /\ delegated # NoCall
    /\ delegated.key \notin DOMAIN cache
    /\ QueryKey(1) \in DOMAIN cache
    /\ QueriesKey(Request(1)) \in DOMAIN cache
    /\ NoneMounted

\* C9: in an evaluation of useQueriesSwr, isLoading is true iff some named
\* live sub-result is the sentinel; if so it returns the mapping cached under
\* the composite key when there is one and the live mapping otherwise; if not
\* it returns the live mapping.
C9_BatchLoading ==
    [][\A i \in MultiInst :
         (multi'[i].mounted /\ EvalQueries(i, multi'[i].queries, multi'[i].result))
            => LET q == multi'[i].queries
                   r == multi'[i].result
               IN /\ multi'[i].isLoading = (\E n \in Names : r[n] = undefined)
                  /\ multi'[i].out =
                        IF \E n \in Names : r[n] = undefined
                        THEN IF QueriesKey(q) \in DOMAIN cache
                             THEN cache[QueriesKey(q)] ELSE r
                        ELSE r]_vars

\* C9 witness: a loading batch for which the cached mapping was returned.
C9_Witness ==
    \E i \in MultiInst :
        /\ multi[i].mounted
        /\ multi[i].isLoading
        /\ multi[i].out # multi[i].result
        /\ \A n \in Names : multi[i].out[n] # undefined

\* The instance shows the sentinel for a loading query although the cache
\* holds a value under its key.
ShowsSentinelOverCached(i) ==
    /\ single[i].mounted
    /\ single[i].result = undefined
    /\ single[i].out = undefined
    /\ QueryKey(single[i].args) \in DOMAIN cache
    /\ cache[QueryKey(single[i].args)] # null

\* C10: an instance that returned the sentinel while loading is evaluated
\* again once a value is written under its key, and then returns that value.
C10_ReevaluatedOnWrite ==
    \A i \in SingleInst : ShowsSentinelOverCached(i) ~> ~ShowsSentinelOverCached(i)

\* C11: built with the switch off, every entry point returns what the
\* underlying hook returns (its loadMore included, and it throws what the
\* hook throws), schedules no effect, and the cache is never written.
C11_DisabledPassThrough ==
    ~FEATURE_FLAG_USE_QUERY_SWR =>
       /\ cache = << >>
       /\ invalidated = {}
       /\ \A i \in SingleInst :
             /\ single[i].mounted => (single[i].out = single[i].result /\ ~single[i].pend)
             /\ single[i].result = QueryError => single[i].out = Thrown(QueryError)
       /\ \A i \in MultiInst :
             multi[i].mounted => (multi[i].out = multi[i].result /\ ~multi[i].pend)
       /\ \A i \in PaginatedInst :
             /\ paginated[i].mounted
                   => (paginated[i].out = paginated[i].result /\ ~paginated[i].pend)
             /\ paginated[i].result = QueryError
                   => paginated[i].out = Thrown(QueryError)

\* C11 witness: with the switch off, the underlying loadMore was called
\* through the paginated entry point and a component then got a resolved
\* query result from the single-query entry point.
C11_Witness ==
    /\ ~FEATURE_FLAG_USE_QUERY_SWR
    /\ delegated # NoCall
    /\ \E i \in SingleInst :
          /\ single[i].mounted
          /\ single[i].result \in Results
          /\ single[i].out = single[i].result

Entries(o) == {o.obj[n] : n \in 1..Len(o.obj)}

Meaning(v) ==
    IF "arr" \in DOMAIN v
    THEN [arr |-> [n \in 1..Len(v.arr) |-> Entries(v.arr[n])]]
    ELSE [obj |-> Entries(v)]

\* C13: createQueryKey returns the same string when called again with the
\* same pair, and the same string for two arguments values with the same
\* properties and values inserted in different orders.
C13_KeyDeterminism ==
    /\ Len(keyOut) = 3 => keyOut[3] = keyOut[1]
    /\ (/\ Len(keyOut) >= 2
        /\ keyIn[1].query = keyIn[2].query
        /\ Meaning(keyIn[1].args) = Meaning(keyIn[2].args))
          => keyOut[1] = keyOut[2]

\* C13 witness: the two pairs differ in insertion order only and got the
\* same key, three calls made.
C13_Witness ==
    /\ Len(keyOut) = 3
    /\ keyIn[1].query = keyIn[2].query
    /\ keyIn[1].args # keyIn[2].args
    /\ Meaning(keyIn[1].args) = Meaning(keyIn[2].args)
    /\ keyOut[1] = keyOut[2]

\* C14: two pairs whose function names differ or whose convexToJson
\* encodings differ get different keys; so the keys of the components'
\* queries are pairwise different, across pages and across hooks.
C14_KeyInjectivity ==
    /\ (/\ Len(keyOut) >= 2
        /\ \/ getFunctionName(keyIn[1].query) # getFunctionName(keyIn[2].query)
           \/ convexToJson(keyIn[1].args) # convexToJson(keyIn[2].args))
          => keyOut[1] # keyOut[2]
    /\ \A p, q \in Pages :
          /\ p # q => (QueryKey(p) # QueryKey(q) /\ PaginatedKey(p) # PaginatedKey(q))
          /\ QueryKey(p) # PaginatedKey(q)
          /\ \A r \in Requests : QueriesKey(r) \notin {QueryKey(p), PaginatedKey(q)}

\* C14 witness: the same arguments for two different queries got two keys.
C14_Witness ==
    /\ Len(keyOut) >= 2
    /\ keyIn[1].query # keyIn[2].query
    /\ keyIn[1].args = keyIn[2].args
    /\ keyOut[1] # keyOut[2]

\* C15: once no effect of a useQuerySwr instance is pending, the entry under
\* each key is the result that the latest evaluation for that key saw (the
\* writes took place in the order of the observations).
C15_WriteOrder ==
    (observed.on /\ \A i \in SingleInst : ~single[i].pend)
       => \A k \in DOMAIN observed.last : CacheGet(cache, k) = observed.last[k]

\* C16: for a key whose entry loadMore deleted, when an evaluation that finds
\* the pagination complete (status CanLoadMore or Exhausted) and its effect
\* phase are over, the cache holds that live result under the key.
C16_Repopulation ==
    [][\A i \in PaginatedInst :
         (/\ paginated'[i] # paginated[i]
          /\ paginated'[i].mounted
          /\ ~paginated'[i].pend
          /\ paginated'[i].result.status \in {"CanLoadMore", "Exhausted"}
          /\ PaginatedKey(paginated'[i].args) \in invalidated)
            => /\ PaginatedKey(paginated'[i].args) \in DOMAIN cache'
               /\ cache'[PaginatedKey(paginated'[i].args)] = paginated'[i].result]_vars

\* The step is a mutation of the cache for key k: the effect of an instance
\* whose key is k, or a call of the loadMore returned for k.
MutationFor(k) ==
    \/ \E i \in SingleInst : EffectQuery(i) /\ QueryKey(single[i].args) = k
    \/ \E i \in MultiInst : EffectQueries(i) /\ QueriesKey(multi[i].queries) = k
    \/ \E i \in PaginatedInst :
          EffectPaginated(i) /\ PaginatedKey(paginated[i].args) = k
    \/ \E i \in PaginatedInst :
          LoadMore(i) /\ paginated[i].out.loadMore.swrLoadMore = k

\* C17: every step leaves the entry of each key as it is (present with the
\* same value, or absent), except a mutation for exactly that key.
C17_CrossKeyIsolation ==
    [][\A k \in DOMAIN cache \cup DOMAIN cache' :
         \/ k \in DOMAIN cache /\ k \in DOMAIN cache' /\ cache'[k] = cache[k]
         \/ MutationFor(k)]_vars

\* C17 witness: the paginated component is mounted, loadMore has deleted
\* the entry of its key, and the entry useQuerySwr wrote earlier is there.
C17_Witness ==
    /\ \E i \in PaginatedInst :
          /\ paginated[i].mounted
          /\ PaginatedKey(paginated[i].args) \in invalidated
          /\ delegated.key = PaginatedKey(paginated[i].args)
    /\ QueryKey(1) \in DOMAIN cache
    /\ cache[QueryKey(1)] \in Results

\* C18: the cache changes only in a step that is the effect of an evaluation
\* made in an earlier step, which then stores the result that evaluation saw
\* under its key, or in a call of loadMore; mounting, evaluating and
\* unmounting leave it as it is.
C18_EvaluationKeepsCache ==
    [][cache' # cache =>
         \/ \E i \in SingleInst :
               /\ EffectQuery(i)
               /\ cache'[QueryKey(single[i].args)] = single[i].result
         \/ \E i \in MultiInst :
               /\ EffectQueries(i)
               /\ cache'[QueriesKey(multi[i].queries)] = multi[i].result
         \/ \E i \in PaginatedInst :
               /\ EffectPaginated(i)
               /\ cache'[PaginatedKey(paginated[i].args)] = paginated[i].result
         \/ \E i \in PaginatedInst : LoadMore(i)]_vars

\* C18 witness: an evaluation has seen a resolved result, its effect has not
\* run yet, and the cache does not hold that result under the key.
C18_Witness ==
    \E i \in SingleInst :
        /\ single[i].mounted
        /\ single[i].pend
        /\ single[i].result \in Results
        /\ CacheGet(cache, QueryKey(single[i].args)) # single[i].result

\* C19: no entry of the cache is the sentinel; an entry under a composite
\* key is a mapping without sentinel sub-result; an entry under a key of
\* usePaginatedQuerySwr has a status that is neither LoadingFirstPage nor
\* LoadingMore; so what a wrapper returned in place of a loading live result
\* is not itself loading.
C19_CachedNeverLoading ==
    /\ \A k \in DOMAIN cache :
          /\ cache[k] # undefined
          /\ k \in {QueriesKey(q) : q \in Requests}
                => \A n \in Names : cache[k][n] # undefined
          /\ k \in {PaginatedKey(p) : p \in Pages}
                => cache[k].status \in {"CanLoadMore", "Exhausted"}
    /\ \A i \in MultiInst :
          (multi[i].mounted /\ multi[i].out # multi[i].result)
             => \A n \in Names : multi[i].out[n] # undefined
    /\ \A i \in PaginatedInst :
          (paginated[i].mounted /\ paginated[i].out.status # paginated[i].result.status)
             => paginated[i].out.status \in {"CanLoadMore", "Exhausted"}

\* C19 witness: the cache holds an entry of each of the three hooks and the
\* paginated component, loading its first page, returned the cached result.
C19_Witness ==
    /\ QueryKey(1) \in DOMAIN cache
    /\ QueriesKey(Request(1)) \in DOMAIN cache
    /\ \E i \in PaginatedInst :
          /\ paginated[i].mounted
          /\ paginated[i].result.status = "LoadingFirstPage"
          /\ PaginatedKey(paginated[i].args) \in DOMAIN cache
          /\ paginated[i].out.status = cache[PaginatedKey(paginated[i].args)].status

\* C20: a request and the same request declared in the other order have
\* different composite keys, and a loading batch whose own key has no entry
\* returned the live mapping although the cache holds the batch under the
\* key of the other order.
C20_CompositeKeyOrder ==
    /\ QueriesKey(Request(1)) # QueriesKey(Reversed(Request(1)))
    /\ \A i \in MultiInst :
          (/\ multi[i].mounted
           /\ multi[i].isLoading
           /\ Reversed(multi[i].queries) \in Requests
           /\ QueriesKey(Reversed(multi[i].queries)) \in DOMAIN cache
           /\ QueriesKey(multi[i].queries) \notin DOMAIN cache)
             => multi[i].out = multi[i].result

\* C20 witness: the batch was cached as declared first; the component
\* declares it in the other order, is loading, and returned the live mapping.
C20_Witness ==
    \E i \in MultiInst :
        /\ multi[i].mounted
        /\ multi[i].queries = Reversed(Request(1))
        /\ multi[i].isLoading
        /\ QueriesKey(Request(1)) \in DOMAIN cache
        /\ QueriesKey(Reversed(Request(1))) \notin DOMAIN cache
        /\ multi[i].out = multi[i].result

====
